---- MODULE Spec2Model ----
(***************************************************************************)
(* State-machine model of src/src/zennit_crp/hooks.py: the gradient        *)
(* masking hook (MaskHook) and the feature-capture hook (FeatVisHook).     *)
(* Python objects are heap cells named by their index; a field that holds  *)
(* a list or a dict holds the index of the cell, so aliasing is explicit.  *)
(***************************************************************************)
EXTENDS Integers, Sequences, FiniteSets, Bags, TLC

\* ------------------------------------------------------------- bounds
\* reverse signals are the integers -MaxGrad..MaxGrad
MaxGrad == 1
\* longest caller-supplied mask pipeline
MaxLen == 2
\* MaskHook objects that exist at once (originals and copies)
MaxHooks == 3
\* FeatVisHook objects that exist at once (the original and its copies)
MaxFeatHooks == 2
\* produced values that carry a reverse observer at once
MaxVals == 2

Grad == (0 - MaxGrad)..MaxGrad

\* The mask functions a caller can put in a pipeline: the default of
\* hooks.py and the two of the composition scenario (negate, clamp(0,1)).
MaskFns == {"default_mask", "negate", "clamp"}

\* mask(masked_grad_output): one mask function applied to a signal
default_mask(obj) == obj

ApplyMask(mask, obj) ==
    CASE mask = "default_mask" -> default_mask(obj)
      [] mask = "negate" -> 0 - obj
      [] mask = "clamp" -> IF obj < 0 THEN 0 ELSE IF obj > 1 THEN 1 ELSE obj

RECURSIVE SeqsUpTo(_)
SeqsUpTo(n) ==
    IF n = 0 THEN {<<>>}
    ELSE LET shorter == SeqsUpTo(n - 1)
         IN shorter \cup {Append(s, m) : s \in {t \in shorter : Len(t) = n - 1}, m \in MaskFns}

Pipelines == SeqsUpTo(MaxLen)

VARIABLES
    lists,      \* heap of Python lists of mask functions, by index
    mhooks,     \* MaskHook objects: [masks: index into lists]
    morigin,    \* per MaskHook, the original it was copied from (itself if constructed)
    mregs,      \* MaskHooks the engine invokes (registered at a node)
    dicts,      \* heap of metadata dicts {"sample_indices", "targets"}, by index
    fhooks,     \* FeatVisHook objects: [FV, concept, layer_name, dict_inputs, on_device]
    forigin,    \* per FeatVisHook, the original it was copied from
    held,       \* FeatVisHooks the driver holds a (strong) reference to
    forward_hooks,  \* the modules' forward hooks: {[module, id, hook]} (bound post_forward)
    handles,    \* per FeatVisHook, the RemovableHandleList its register returned
                \*   (none before the driver has registered it)
    vals,       \* the produced values that carry a reverse observer, as a bag
                \*   (values with equal contents are interchangeable): the
                \*   wrapper registered on each, and the s_indices, targets
                \*   its post_forward call read
    last,       \* the call just made: operation, arguments, return value, exception
    frame,      \* the handler call in progress, when handlers are followed
                \*   statement by statement: its position and its locals
    counts,     \* per FeatVisHook, how many post_forward calls got an output
                \*   with grad_fn and how many analyze_relevance calls were made
    driver      \* the external driver's runs: whether it serializes them, the
                \*   values each run in flight produced, the run whose
                \*   observer fired last

mvars == <<lists, mhooks, morigin, mregs>>
fvars == <<dicts, fhooks, forigin, held, forward_hooks, handles, vals>>
\* what only the statement-level and the run-level specifications change
xvars == <<frame, counts, driver>>
vars == <<lists, mhooks, morigin, mregs, dicts, fhooks, forigin, held,
          forward_hooks, handles, vals, last, frame, counts, driver>>

\* no handler call in progress; nothing counted; no run bookkeeping
NoFrame == [op |-> "none"]
NoCounts == <<>>
NoDriver == [serial |-> TRUE, pending |-> <<>>, fired |-> <<>>]

MaskHookIds == 1..Len(mhooks)

\* a constructor with one default list for all: def __init__(self,
\* masks=[_default_mask])
MaskHook_init_shared_default(caller, how) ==
    LET usesCaller == \E i \in 1..Len(how) : how[i] = "caller"
        base == IF usesCaller THEN 1 ELSE 0
    IN /\ lists = [k \in 1..(base + 1) |->
                     IF usesCaller /\ k = 1 THEN caller ELSE <<"default_mask">>]
       /\ mhooks = [i \in 1..Len(how) |->
                     [masks |-> IF how[i] = "caller" THEN 1 ELSE base + 1]]
       /\ morigin = [i \in 1..Len(how) |-> i]
       /\ mregs = {}

\* MaskHook.__init__: masks=None makes a new one-element list holding the
\* default mask; a list argument is stored as is (the same list object).
\* how[i] says how original i was constructed.
MaskHook_init(caller, how) ==
    LET usesCaller == \E i \in 1..Len(how) : how[i] = "caller"
        base == IF usesCaller THEN 1 ELSE 0
        nthDefault(i) == Cardinality({j \in 1..i : how[j] = "default"})
        nDefault == nthDefault(Len(how))
    IN /\ lists = [k \in 1..(base + nDefault) |->
                     IF usesCaller /\ k = 1 THEN caller ELSE <<"default_mask">>]
       /\ mhooks = [i \in 1..Len(how) |->
                     [masks |-> IF how[i] = "caller" THEN 1 ELSE base + nthDefault(i)]]
       /\ morigin = [i \in 1..Len(how) |-> i]
       /\ mregs = {}

Constructions == {<<"caller">>, <<"default">>, <<"default", "default">>, <<"caller", "default">>}

\* a loop that walks the pipeline from its end: reversed(self.masks)
RECURSIVE RunMasksReversed(_, _, _)
RunMasksReversed(masks, masked_grad_output, i) ==
    IF i > Len(masks) THEN masked_grad_output
    ELSE RunMasksReversed(masks,
             ApplyMask(masks[Len(masks) + 1 - i], masked_grad_output), i + 1)

\* the loop of pre_backward: masks[i], masks[i+1], ... applied in turn
RECURSIVE RunMasks(_, _, _)
RunMasks(masks, masked_grad_output, i) ==
    IF i > Len(masks) THEN masked_grad_output
    ELSE RunMasks(masks, ApplyMask(masks[i], masked_grad_output), i + 1)

\* Hook.register of the engine: from now on the engine calls pre_backward
MaskHook_register(h) ==
    /\ h \notin mregs
    /\ mregs' = mregs \cup {h}
    /\ last' = [op |-> "MaskHook.register", raised |-> "none"]
    /\ UNCHANGED <<lists, mhooks, morigin, fvars>>

\* MaskHook.pre_backward(module, grad_input, grad_output), called by the
\* engine for a registered hook: the loop runs on a clone of grad_output[0];
\* bookkeeping is what the base class's pre_backward is handed.
MaskHook_pre_backward(h, grad_output) ==
    LET masked_grad_output == RunMasks(lists[mhooks[h].masks], grad_output, 1)
    IN /\ h \in mregs
       /\ last' = [op |-> "MaskHook.pre_backward", hook |-> h,
                   grad_output |-> grad_output,
                   bookkeeping |-> masked_grad_output,
                   ret |-> masked_grad_output,
                   raised |-> "none"]
       /\ UNCHANGED <<mvars, fvars>>

\* a copy that gets a list of its own: MaskHook(masks=list(self.masks))
MaskHook_copy_own_list(h) ==
    /\ Len(mhooks) < MaxHooks
    /\ lists' = Append(lists, lists[mhooks[h].masks])
    /\ mhooks' = Append(mhooks, [masks |-> Len(lists) + 1])
    /\ morigin' = Append(morigin, morigin[h])
    /\ last' = [op |-> "MaskHook.copy", raised |-> "none"]
    /\ UNCHANGED <<mregs, fvars>>

\* MaskHook.copy: MaskHook(masks=self.masks)
MaskHook_copy(h) ==
    /\ Len(mhooks) < MaxHooks
    /\ mhooks' = Append(mhooks, [masks |-> mhooks[h].masks])
    /\ morigin' = Append(morigin, morigin[h])
    /\ last' = [op |-> "MaskHook.copy", raised |-> "none"]
    /\ UNCHANGED <<lists, mregs, fvars>>

\* a remove that gives this hook a new empty list: self.masks = []
MaskHook_remove_rebind(h) ==
    /\ lists' = IF lists[mhooks[h].masks] = <<>> THEN lists ELSE Append(lists, <<>>)
    /\ mhooks' = IF lists[mhooks[h].masks] = <<>> THEN mhooks
                  ELSE [mhooks EXCEPT ![h].masks = Len(lists) + 1]
    /\ last' = [op |-> "MaskHook.remove", hook |-> h,
                again |-> (last.op = "MaskHook.remove" /\ last.hook = h),
                raised |-> "none"]
    /\ UNCHANGED <<morigin, mregs, fvars>>

\* a remove that drops one mask per call: self.masks.pop()
MaskHook_remove_pop(h) ==
    /\ lists' = [lists EXCEPT ![mhooks[h].masks] =
                    IF @ = <<>> THEN @ ELSE SubSeq(@, 1, Len(@) - 1)]
    /\ last' = [op |-> "MaskHook.remove", hook |-> h,
                again |-> (last.op = "MaskHook.remove" /\ last.hook = h),
                raised |-> IF lists[mhooks[h].masks] = <<>> THEN "IndexError"
                           ELSE "none"]
    /\ UNCHANGED <<mhooks, morigin, mregs, fvars>>

\* MaskHook.remove: self.masks.clear(), then the base class's remove (which
\* touches neither the masks nor the registrations). again: the call
\* before this one was the same detach.
MaskHook_remove(h) ==
    /\ lists' = [lists EXCEPT ![mhooks[h].masks] = <<>>]
    /\ last' = [op |-> "MaskHook.remove", hook |-> h,
                again |-> (last.op = "MaskHook.remove" /\ last.hook = h),
                raised |-> "none"]
    /\ UNCHANGED <<mhooks, morigin, mregs, fvars>>

\* ---------------------------------------------------------- FeatVisHook
\* The feature-capture hook only passes metadata on, it computes nothing
\* from it: two distinct runs show every way in which it can confuse them.
Runs == {"A", "B"}
\* the sample indices and the target labels of run r
SampleIndices(r) == <<"sample_indices", r>>
Targets(r) == <<"targets", r>>
FeatVisHookIds == 1..Len(fhooks)

\* The driver makes one copy of the hook definition per node it instruments:
\* hook h is the one for module h.
Module(h) == h

\* what a module can produce: a tensor, or a tuple of one or two tensors;
\* grad_fn is that of the tensor (of the tuple's first element)
Outputs == [shape : {"tensor", "tuple1", "tuple2"}, grad_fn : BOOLEAN]

\* the reverse signal the engine hands to a value's observer
GradTensor == [shape |-> "tensor", grad_fn |-> FALSE]

\* FeatVisHook.__init__(FV, concept, layer_name, dict_inputs, on_device)
FeatVisHook_init(on_device) ==
    /\ dicts = <<[sample_indices |-> SampleIndices("A"), targets |-> Targets("A")]>>
    /\ fhooks = <<[FV |-> "FV", concept |-> "concept", layer_name |-> "layer",
                   dict_inputs |-> 1, on_device |-> on_device]>>
    /\ forigin = <<1>>
    /\ held = {1}
    /\ forward_hooks = {}
    /\ handles = << <<>> >>
    /\ vals = EmptyBag

\* The closure post_forward builds: hook_ref is weakref.ref(self); wrapped is
\* the bound method self.backward that functools.wraps stores in
\* wrapper.__wrapped__, an ordinary (strong) reference to the hook.
wrapper(self, module) == [hook_ref |-> self, wrapped |-> self, module |-> module]

\* The strong references to hook h: the driver's, a module's forward hook
\* (the bound method post_forward), a wrapper on a value that still exists.
StrongRefs(h) ==
    [driver |-> h \in held,
     forward_hook |-> \E e \in forward_hooks : e.hook = h,
     wrapper |-> \E v \in BagToSet(vals) : v.backward_hook.wrapped = h]

\* Reference counting: an object lives while a strong reference to it exists;
\* weakref.ref(h)() is h while Alive(h) and None afterwards.
Alive(h) ==
    LET r == StrongRefs(h) IN r.driver \/ r.forward_hook \/ r.wrapper

\* s_indices, targets as the handlers read them from self.dict_inputs
ReadMeta(self) ==
    [s_indices |-> dicts[fhooks[self].dict_inputs].sample_indices,
     targets |-> dicts[fhooks[self].dict_inputs].targets]

\* x.detach().to(self.on_device) if self.on_device else x.detach():
\* a new tensor with the data of x, off the graph, on the configured device
Detached(self, x) ==
    [detached |-> x,
     device |-> IF fhooks[self].on_device # "None" THEN fhooks[self].on_device
                ELSE "cuda"]

\* the arguments of self.FV.analyze_activation / analyze_relevance
AnalyzerCall(fn, self, tensor, meta) ==
    [fn |-> fn, tensor |-> tensor, layer_name |-> fhooks[self].layer_name,
     concept |-> fhooks[self].concept,
     s_indices |-> meta.s_indices, targets |-> meta.targets]

\* the driver rebinds the metadata of dict d for run r:
\* d["sample_indices"] = ...; d["targets"] = ...
Rebind(d, r) ==
    /\ dicts[d].sample_indices # SampleIndices(r)
    /\ dicts' = [dicts EXCEPT ![d] = [sample_indices |-> SampleIndices(r),
                                        targets |-> Targets(r)]]
    /\ last' = [op |-> "rebind", raised |-> "none"]
    /\ UNCHANGED <<mvars, fhooks, forigin, held, forward_hooks, handles, vals>>

\* FeatVisHook.post_forward(module, input, output), called by the engine for
\* the forward hook registered at module.
\* output.detach() is evaluated on the raw output, before the tuple test:
\* a tuple has no detach, so the call ends there with AttributeError.
\* A value on which an observer is registered joins vals, with the
\* s_indices, targets this call read.
FeatVisHook_post_forward(self, module, output) ==
    LET meta == ReadMeta(self)
        hasDetach == output.shape = "tensor"
        raised == IF ~hasDetach THEN "AttributeError" ELSE "none"
        activation == AnalyzerCall("analyze_activation", self,
                                   Detached(self, output), meta)
        len == IF output.shape = "tuple2" THEN 2 ELSE 1
        registers == raised = "none" /\ output.grad_fn
    IN /\ \E e \in forward_hooks : e.hook = self /\ e.module = module
       /\ registers => BagCardinality(vals) < MaxVals
       /\ vals' = IF registers
                  THEN vals (+) SetToBag({[backward_hook |-> wrapper(self, module),
                                           forward_meta |-> meta]})
                  ELSE vals
       /\ last' = [op |-> "FeatVisHook.post_forward", hook |-> self,
                   output |-> output,
                   calls |-> IF hasDetach THEN <<activation>> ELSE <<>>,
                   registered |-> registers,
                   ret |-> IF raised = "none"
                           THEN <<IF len = 1 THEN [output EXCEPT !.shape = "tensor"]
                                  ELSE output>>
                           ELSE <<>>,
                   raised |-> raised]
       /\ UNCHANGED <<mvars, dicts, fhooks, forigin, held, forward_hooks, handles>>

\* a backward that reports what post_forward read for the value
BackwardMetaCaptured(self, v) == v.forward_meta

\* s_indices, targets of FeatVisHook.backward: read from self.dict_inputs
\* when the observer fires
BackwardMeta(self, v) == ReadMeta(self)

\* The engine fires the wrapper registered on value v with reverse signal
\* grad: wrapper resolves hook_ref() and calls backward(module, grad) on it.
\* A dead reference resolves to None, and None.backward is an AttributeError.
\* The engine fires a value's observer once and discards it afterwards.
wrapper_call(v, grad) ==
    LET w == v.backward_hook
        self == w.hook_ref
        resolved == Alive(self)
        raised == IF ~resolved THEN "AttributeError" ELSE "none"
    IN /\ vals' = vals (-) SetToBag({v})
       /\ last' = [op |-> "FeatVisHook.backward", hook |-> self,
                   forward_meta |-> v.forward_meta, grad |-> grad,
                   calls |-> IF resolved
                             THEN <<AnalyzerCall("analyze_relevance", self,
                                                 Detached(self, grad),
                                                 BackwardMeta(self, v))>>
                             ELSE <<>>,
                   ret |-> IF raised = "none" THEN <<grad>> ELSE <<>>,
                   raised |-> raised]
       /\ UNCHANGED <<mvars, dicts, fhooks, forigin, held, forward_hooks, handles>>

\* The value (and the graph it belongs to) is released before the reverse
\* pass reaches it: its pending observer goes with it.
FreeValue(v) ==
    /\ vals' = vals (-) SetToBag({v})
    /\ last' = [op |-> "free", raised |-> "none"]
    /\ UNCHANGED <<mvars, dicts, fhooks, forigin, held, forward_hooks, handles>>

\* a copy that gets a dict of its own: dict(self.dict_inputs)
FeatVisHook_copy_own_dict(self) ==
    /\ self \in held
    /\ Len(fhooks) < MaxFeatHooks
    /\ dicts' = Append(dicts, dicts[fhooks[self].dict_inputs])
    /\ fhooks' = Append(fhooks, [fhooks[self] EXCEPT !.dict_inputs = Len(dicts) + 1])
    /\ forigin' = Append(forigin, forigin[self])
    /\ held' = held \cup {Len(fhooks) + 1}
    /\ handles' = Append(handles, <<>>)
    /\ last' = [op |-> "FeatVisHook.copy", raised |-> "none"]
    /\ UNCHANGED <<mvars, forward_hooks, vals>>

\* FeatVisHook.copy: a new object with the same five field values
FeatVisHook_copy(self) ==
    /\ self \in held
    /\ Len(fhooks) < MaxFeatHooks
    /\ fhooks' = Append(fhooks,
           [FV |-> fhooks[self].FV, concept |-> fhooks[self].concept,
            layer_name |-> fhooks[self].layer_name,
            dict_inputs |-> fhooks[self].dict_inputs,
            on_device |-> fhooks[self].on_device])
    /\ forigin' = Append(forigin, forigin[self])
    /\ held' = held \cup {Len(fhooks) + 1}
    /\ handles' = Append(handles, <<>>)
    /\ last' = [op |-> "FeatVisHook.copy", raised |-> "none"]
    /\ UNCHANGED <<mvars, dicts, forward_hooks, vals>>

\* the driver drops its reference to a hook
Drop(h) ==
    /\ h \in held
    /\ held' = held \ {h}
    /\ last' = [op |-> "drop", raised |-> "none"]
    /\ UNCHANGED <<mvars, dicts, fhooks, forigin, forward_hooks, handles, vals>>

\* a remove that takes the hook's forward hook off its module
FeatVisHook_remove_unregisters(self) ==
    /\ self \in held
    /\ forward_hooks' = {e \in forward_hooks : e.hook # self}
    /\ last' = [op |-> "FeatVisHook.remove", hook |-> self, raised |-> "none"]
    /\ UNCHANGED <<mvars, dicts, fhooks, forigin, held, handles, vals>>

\* FeatVisHook.remove: pass
FeatVisHook_remove(self) ==
    /\ self \in held
    /\ last' = [op |-> "FeatVisHook.remove", hook |-> self, raised |-> "none"]
    /\ UNCHANGED <<mvars, fvars>>

\* FeatVisHook.register(module): RemovableHandleList([RemovableHandle(self),
\* module.register_forward_hook(self.post_forward)]). RemovableHandle holds
\* the hook weakly; the forward hook handle names the module's entry by id.
\* The driver registers each hook once, at its module.
FeatVisHook_register(self, module) ==
    /\ self \in held
    /\ handles[self] = <<>>
    /\ forward_hooks' = forward_hooks \cup
                          {[module |-> module, id |-> self, hook |-> self]}
    /\ handles' = [handles EXCEPT ![self] =
                      << <<[kind |-> "RemovableHandle", ref |-> self],
                           [kind |-> "forward_hook", ref |-> module]>> >>]
    /\ last' = [op |-> "FeatVisHook.register", raised |-> "none"]
    /\ UNCHANGED <<mvars, dicts, fhooks, forigin, held, vals>>

\* a composite handle that detaches every forward hook of the family
HandleList_remove_all(k) ==
    /\ handles[k] # <<>>
    /\ forward_hooks' = {}
    /\ handles' = [handles EXCEPT ![k] = << <<>> >>]
    /\ last' = [op |-> "handle.remove", handle |-> k,
                again |-> (last.op = "handle.remove" /\ last.handle = k),
                raised |-> "none"]
    /\ UNCHANGED <<mvars, dicts, fhooks, forigin, held, vals>>

\* remove() of the composite handle register returned for hook k: every
\* handle's remove, then clear(). RemovableHandle.remove calls remove() on
\* the hook if it still exists (FeatVisHook.remove: pass); the forward hook
\* handle deletes its entry from the module. again: the call before this
\* one was the same detach.
HandleList_remove(k) ==
    /\ handles[k] # <<>>
    /\ forward_hooks' =
          {e \in forward_hooks :
              ~\E i \in 1..Len(handles[k][1]) :
                  /\ handles[k][1][i].kind = "forward_hook"
                  /\ handles[k][1][i].ref = e.module
                  /\ e.id = k}
    /\ handles' = [handles EXCEPT ![k] = << <<>> >>]
    /\ last' = [op |-> "handle.remove", handle |-> k,
                again |-> (last.op = "handle.remove" /\ last.handle = k),
                raised |-> "none"]
    /\ UNCHANGED <<mvars, dicts, fhooks, forigin, held, vals>>

InitMask ==
    /\ \E caller \in Pipelines, how \in Constructions : MaskHook_init(caller, how)
    /\ dicts = <<>> /\ fhooks = <<>> /\ forigin = <<>> /\ held = {}
    /\ forward_hooks = {} /\ handles = <<>> /\ vals = EmptyBag

InitFeatVis ==
    /\ FeatVisHook_init("cpu")
    /\ lists = <<>> /\ mhooks = <<>> /\ morigin = <<>> /\ mregs = {}

\* The state after construction of the driver's hook definition(s): mask
\* hooks (one or two originals) or one feature-capture hook.
Init ==
    /\ InitMask \/ InitFeatVis
    /\ last = [op |-> "init", raised |-> "none"]
    /\ frame = NoFrame /\ counts = NoCounts /\ driver = NoDriver

Next ==
    \/ \E h \in MaskHookIds : MaskHook_register(h) /\ UNCHANGED xvars
    \/ \E h \in MaskHookIds, g \in Grad : MaskHook_pre_backward(h, g) /\ UNCHANGED xvars
    \/ \E h \in MaskHookIds : MaskHook_copy(h) /\ UNCHANGED xvars
    \/ \E h \in MaskHookIds : MaskHook_remove(h) /\ UNCHANGED xvars
    \/ \E d \in 1..Len(dicts), r \in Runs : Rebind(d, r) /\ UNCHANGED xvars
    \/ \E h \in FeatVisHookIds, o \in Outputs : FeatVisHook_post_forward(h, Module(h), o) /\ UNCHANGED xvars
    \/ \E v \in BagToSet(vals) : wrapper_call(v, GradTensor) /\ UNCHANGED xvars
    \/ \E v \in BagToSet(vals) : FreeValue(v) /\ UNCHANGED xvars
    \/ \E h \in FeatVisHookIds : FeatVisHook_copy(h) /\ UNCHANGED xvars
    \/ \E h \in FeatVisHookIds : Drop(h) /\ UNCHANGED xvars
    \/ \E h \in FeatVisHookIds : FeatVisHook_remove(h) /\ UNCHANGED xvars
    \/ \E h \in FeatVisHookIds : FeatVisHook_register(h, Module(h)) /\ UNCHANGED xvars
    \/ \E k \in 1..Len(handles) : HandleList_remove(k) /\ UNCHANGED xvars

Spec == Init /\ [][Next]_vars

\* output[0] after "if not isinstance(output, tuple): output = (output,)"
FirstElement(output) == [output EXCEPT !.shape = "tensor"]

\* ------------------------------------------- FeatVisHook, by statement
\* The handlers of FeatVisHook followed statement by statement, one call at
\* a time, with an analyzer (self.FV) that may raise. frame holds the call
\* in progress; last is written when the call ends.

\* post_forward calls with grad_fn that are counted per hook
MaxCalls == 2

\* the reverse signals the engine hands to an observer
GradTensors == {[shape |-> "tensor", grad_fn |-> FALSE, data |-> g] : g \in Grad}

\* what a call of self.FV.analyze_activation / analyze_relevance does
AnalyzerOutcomes == {"returns", "raises"}

InitSteps ==
    /\ InitFeatVis
    /\ last = [op |-> "init", raised |-> "none"]
    /\ frame = NoFrame
    /\ counts = <<[forward |-> 0, relevance |-> 0]>>
    /\ driver = NoDriver

\* a post_forward that registers the observer before it reports the activation
post_forward_next_register_first(pc) ==
    CASE pc = "detach" -> "register"
      [] pc = "register" -> "analyze"
      [] pc = "analyze" -> "return"

\* the order of the statements of post_forward after s_indices, targets are
\* read: detach (63-65), analyze_activation (66-68), the wrapper and
\* register_hook (70-81), return (82)
post_forward_next(pc) ==
    CASE pc = "detach" -> "analyze"
      [] pc = "analyze" -> "register"
      [] pc = "register" -> "return"

\* the engine calls post_forward(module, input, output): s_indices, targets
\* are read from self.dict_inputs
post_forward_call(self, module, output) ==
    /\ frame = NoFrame
    /\ \E e \in forward_hooks : e.hook = self /\ e.module = module
    /\ output.grad_fn => /\ counts[self].forward < MaxCalls
                         /\ BagCardinality(vals) < MaxVals
    /\ frame' = [op |-> "FeatVisHook.post_forward", pc |-> "detach",
                 self |-> self, module |-> module, output |-> output,
                 meta |-> ReadMeta(self), activation |-> <<>>,
                 calls |-> <<>>, registered |-> FALSE]
    /\ counts' = IF output.grad_fn
                 THEN [counts EXCEPT ![self].forward = @ + 1]
                 ELSE counts
    /\ UNCHANGED <<mvars, fvars, last, driver>>

\* the record of a post_forward call that has ended
post_forward_ended(calls, registered, ret, raised) ==
    [op |-> "FeatVisHook.post_forward", hook |-> frame.self,
     output |-> frame.output, calls |-> calls, registered |-> registered,
     ret |-> ret, raised |-> raised]

\* activation = output.detach()...: a tuple has no detach
post_forward_detach ==
    /\ frame.op = "FeatVisHook.post_forward" /\ frame.pc = "detach"
    /\ IF frame.output.shape = "tensor"
       THEN /\ frame' = [frame EXCEPT !.pc = post_forward_next("detach"),
                            !.activation = <<Detached(frame.self, frame.output)>>]
            /\ UNCHANGED last
       ELSE /\ frame' = NoFrame
            /\ last' = post_forward_ended(frame.calls, frame.registered, <<>>,
                                          "AttributeError")
    /\ UNCHANGED <<mvars, fvars, counts, driver>>

\* an analyze_activation call inside try/except: pass
post_forward_analyze_swallows(outcome) ==
    LET call == AnalyzerCall("analyze_activation", frame.self,
                             frame.activation[1], frame.meta)
    IN /\ frame.op = "FeatVisHook.post_forward" /\ frame.pc = "analyze"
       /\ frame' = [frame EXCEPT !.pc = post_forward_next("analyze"),
                        !.calls = Append(@, call)]
       /\ UNCHANGED <<mvars, fvars, counts, driver, last>>

\* self.FV.analyze_activation(activation, layer_name, concept, s_indices,
\* targets): there is no try around it, what it raises leaves post_forward
post_forward_analyze(outcome) ==
    LET call == AnalyzerCall("analyze_activation", frame.self,
                             frame.activation[1], frame.meta)
    IN /\ frame.op = "FeatVisHook.post_forward" /\ frame.pc = "analyze"
       /\ IF outcome = "returns"
          THEN /\ frame' = [frame EXCEPT !.pc = post_forward_next("analyze"),
                               !.calls = Append(@, call)]
               /\ UNCHANGED last
          ELSE /\ frame' = NoFrame
               /\ last' = post_forward_ended(Append(frame.calls, call),
                                             frame.registered, <<>>,
                                             "AnalyzerFailure")
       /\ UNCHANGED <<mvars, fvars, counts, driver>>

\* a post_forward that registers the wrapper on output[0] and on its clone
post_forward_register_twice ==
    LET registers == frame.output.grad_fn
        value == [backward_hook |-> wrapper(frame.self, frame.module),
                  forward_meta |-> frame.meta]
    IN /\ frame.op = "FeatVisHook.post_forward" /\ frame.pc = "register"
       /\ vals' = IF registers THEN vals (+) SetToBag({value}) (+) SetToBag({value})
                  ELSE vals
       /\ frame' = [frame EXCEPT !.pc = post_forward_next("register"),
                        !.registered = registers]
       /\ UNCHANGED <<mvars, dicts, fhooks, forigin, held, forward_hooks,
                      handles, last, counts, driver>>

\* hook_ref, wrapper, the tuple test, and
\* if output[0].grad_fn is not None: output[0].register_hook(wrapper)
post_forward_register ==
    LET registers == frame.output.grad_fn
        value == [backward_hook |-> wrapper(frame.self, frame.module),
                  forward_meta |-> frame.meta]
    IN /\ frame.op = "FeatVisHook.post_forward" /\ frame.pc = "register"
       /\ vals' = IF registers THEN vals (+) SetToBag({value}) ELSE vals
       /\ frame' = [frame EXCEPT !.pc = post_forward_next("register"),
                        !.registered = registers]
       /\ UNCHANGED <<mvars, dicts, fhooks, forigin, held, forward_hooks,
                      handles, last, counts, driver>>

\* return output[0] if len(output) == 1 else output
post_forward_return ==
    /\ frame.op = "FeatVisHook.post_forward" /\ frame.pc = "return"
    /\ frame' = NoFrame
    /\ last' = post_forward_ended(frame.calls, frame.registered,
                                  <<IF frame.output.shape = "tuple2" THEN frame.output
                                    ELSE FirstElement(frame.output)>>, "none")
    /\ UNCHANGED <<mvars, fvars, counts, driver>>

\* the record of a backward call that has ended
backward_ended(calls, ret, raised) ==
    [op |-> "FeatVisHook.backward", hook |-> frame.self,
     forward_meta |-> frame.value.forward_meta, grad |-> frame.grad,
     calls |-> calls, ret |-> ret, raised |-> raised]

\* the engine fires the wrapper on value v: hook_ref().backward(module, grad)
\* and, in backward, s_indices, targets read from self.dict_inputs
backward_call(v, grad) ==
    LET self == v.backward_hook.hook_ref
    IN /\ frame = NoFrame
       /\ IF Alive(self)
          THEN /\ frame' = [op |-> "FeatVisHook.backward", pc |-> "analyze",
                            self |-> self, module |-> v.backward_hook.module,
                            grad |-> grad, value |-> v,
                            meta |-> BackwardMeta(self, v), calls |-> <<>>]
               /\ UNCHANGED <<vals, last>>
          ELSE /\ frame' = NoFrame
               /\ vals' = vals (-) SetToBag({v})
               /\ last' = [op |-> "FeatVisHook.backward", hook |-> self,
                           forward_meta |-> v.forward_meta, grad |-> grad,
                           calls |-> <<>>, ret |-> <<>>,
                           raised |-> "AttributeError"]
       /\ UNCHANGED <<mvars, dicts, fhooks, forigin, held, forward_hooks,
                      handles, counts, driver>>

\* relevance = grad.detach()...; self.FV.analyze_relevance(relevance, ...):
\* there is no try around it, what it raises leaves backward and the wrapper.
\* An observer that raised has fired: the engine does not fire it again.
backward_analyze(outcome) ==
    LET call == AnalyzerCall("analyze_relevance", frame.self,
                             Detached(frame.self, frame.grad), frame.meta)
    IN /\ frame.op = "FeatVisHook.backward" /\ frame.pc = "analyze"
       /\ counts' = [counts EXCEPT ![frame.self].relevance = @ + 1]
       /\ IF outcome = "returns"
          THEN /\ frame' = [frame EXCEPT !.pc = "return", !.calls = Append(@, call)]
               /\ UNCHANGED <<vals, last>>
          ELSE /\ frame' = NoFrame
               /\ vals' = vals (-) SetToBag({frame.value})
               /\ last' = backward_ended(Append(frame.calls, call), <<>>,
                                         "AnalyzerFailure")
       /\ UNCHANGED <<mvars, dicts, fhooks, forigin, held, forward_hooks,
                      handles, driver>>

\* a backward that hands on the detached copy: return relevance
backward_return_relevance ==
    /\ frame.op = "FeatVisHook.backward" /\ frame.pc = "return"
    /\ frame' = NoFrame
    /\ vals' = vals (-) SetToBag({frame.value})
    /\ last' = backward_ended(frame.calls, <<Detached(frame.self, frame.grad)>>, "none")
    /\ UNCHANGED <<mvars, dicts, fhooks, forigin, held, forward_hooks,
                   handles, counts, driver>>

\* return grad; the engine discards the observer that has fired
backward_return ==
    /\ frame.op = "FeatVisHook.backward" /\ frame.pc = "return"
    /\ frame' = NoFrame
    /\ vals' = vals (-) SetToBag({frame.value})
    /\ last' = backward_ended(frame.calls, <<frame.grad>>, "none")
    /\ UNCHANGED <<mvars, dicts, fhooks, forigin, held, forward_hooks,
                   handles, counts, driver>>

\* what the driver does between two handler calls (one hook, one module)
BetweenCalls ==
    /\ frame = NoFrame
    /\ \/ \E d \in 1..Len(dicts), r \in Runs : Rebind(d, r) /\ UNCHANGED counts
       \/ \E h \in FeatVisHookIds : FeatVisHook_register(h, Module(h)) /\ UNCHANGED counts
       \/ \E k \in 1..Len(handles) : HandleList_remove(k) /\ UNCHANGED counts
       \/ \E v \in BagToSet(vals) : FreeValue(v) /\ UNCHANGED counts
    /\ UNCHANGED <<frame, driver>>

NextSteps ==
    \/ BetweenCalls
    \/ \E h \in FeatVisHookIds, o \in Outputs : post_forward_call(h, Module(h), o)
    \/ post_forward_detach
    \/ \E outcome \in AnalyzerOutcomes : post_forward_analyze(outcome)
    \/ post_forward_register
    \/ post_forward_return
    \/ \E v \in BagToSet(vals), grad \in GradTensors : backward_call(v, grad)
    \/ \E outcome \in AnalyzerOutcomes : backward_analyze(outcome)
    \/ backward_return

SpecSteps == InitSteps /\ [][NextSteps]_vars

\* ------------------------------------------------------- runs in flight
\* The driver's runs over one capture context. A run binds its sample
\* indices and targets in the shared dict, evaluates instrumented modules
\* (post_forward), propagates backward (the observers of its values fire)
\* and ends, releasing its graph. driver.serial: the driver starts a run only
\* when no other is in flight; otherwise runs overlap freely (threads that
\* share the hooks; each handler call itself is atomic).
InitRuns ==
    /\ InitFeatVis
    /\ last = [op |-> "init", raised |-> "none"]
    /\ frame = NoFrame
    /\ counts = NoCounts
    /\ \E serial \in BOOLEAN :
          driver = [serial |-> serial, inflight |-> {},
                    pending |-> [r \in Runs |-> EmptyBag], fired |-> <<>>]

\* run r starts: dict_inputs["sample_indices"], dict_inputs["targets"] are
\* bound to those of r
BeginRun(r) ==
    /\ r \notin driver.inflight
    /\ driver.serial => driver.inflight = {}
    /\ dicts' = [dicts EXCEPT ![fhooks[1].dict_inputs] =
                    [sample_indices |-> SampleIndices(r), targets |-> Targets(r)]]
    /\ driver' = [driver EXCEPT !.inflight = @ \cup {r}]
    /\ last' = [op |-> "rebind", raised |-> "none"]
    /\ UNCHANGED <<mvars, fhooks, forigin, held, forward_hooks, handles, vals,
                   frame, counts>>

\* run r evaluates the module of hook h: the value that got an observer
\* belongs to r
RunForward(r, h, o) ==
    /\ r \in driver.inflight
    /\ FeatVisHook_post_forward(h, Module(h), o)
    /\ driver' = [driver EXCEPT !.pending[r] = @ (+) (vals' (-) vals)]
    /\ UNCHANGED <<frame, counts>>

\* the reverse pass of run r reaches its value v
RunBackward(r, v) ==
    /\ r \in driver.inflight
    /\ BagIn(v, driver.pending[r])
    /\ wrapper_call(v, GradTensor)
    /\ driver' = [driver EXCEPT !.pending[r] = @ (-) SetToBag({v}),
                                !.fired = <<r>>]
    /\ UNCHANGED <<frame, counts>>

\* run r ends: its graph is released, with the observers that did not fire
EndRun(r) ==
    /\ r \in driver.inflight
    /\ vals' = vals (-) driver.pending[r]
    /\ driver' = [driver EXCEPT !.inflight = @ \ {r}, !.pending[r] = EmptyBag]
    /\ last' = [op |-> "free", raised |-> "none"]
    /\ UNCHANGED <<mvars, dicts, fhooks, forigin, held, forward_hooks, handles,
                   frame, counts>>

NextRuns ==
    \/ \E r \in Runs : BeginRun(r)
    \/ \E r \in Runs, h \in FeatVisHookIds, o \in Outputs : RunForward(r, h, o)
    \/ \E r \in Runs, v \in BagToSet(vals) : RunBackward(r, v)
    \/ \E r \in Runs : EndRun(r)
    \/ \E h \in FeatVisHookIds : FeatVisHook_copy(h) /\ UNCHANGED xvars
    \/ \E h \in FeatVisHookIds : FeatVisHook_register(h, Module(h)) /\ UNCHANGED xvars

SpecRuns == InitRuns /\ [][NextRuns]_vars

\* ---------------------------------------------- MaskHook, by statement
\* pre_backward followed statement by statement, with tensors as objects: a
\* mask function may return a new tensor or change its argument in place,
\* and another thread may call remove or copy between two statements.

\* a mask function that works in place: lambda g: g.neg_()
InPlaceMaskFns == {"negate_"}

RECURSIVE StepSeqsUpTo(_)
StepSeqsUpTo(n) ==
    IF n = 0 THEN {<<>>}
    ELSE LET shorter == StepSeqsUpTo(n - 1)
         IN shorter \cup {Append(s, m) : s \in {t \in shorter : Len(t) = n - 1},
                                        m \in MaskFns \cup InPlaceMaskFns}

\* one original, constructed from a list (MaskHook() is MaskHook([_default_mask]))
InitMaskSteps ==
    /\ \E caller \in StepSeqsUpTo(MaxLen) : MaskHook_init(caller, <<"caller">>)
    /\ dicts = <<>> /\ fhooks = <<>> /\ forigin = <<>> /\ held = {}
    /\ forward_hooks = {} /\ handles = <<>> /\ vals = EmptyBag
    /\ last = [op |-> "init", raised |-> "none"]
    /\ frame = NoFrame /\ counts = NoCounts /\ driver = NoDriver

\* a pre_backward that works on the engine's tensor: grad_output[0] itself
CloneAlias(grad_output) == [is_grad_output |-> TRUE, value |-> grad_output]

\* grad_output[0].clone(): a new tensor with the same value.
\* is_grad_output: the tensor is the object the engine holds
Clone(grad_output) == [is_grad_output |-> FALSE, value |-> grad_output]

\* mask(masked_grad_output): the tensor the call returns. _default_mask
\* returns its argument, an in-place function changes and returns its
\* argument, the others return a new tensor.
CallMask(mask, t) ==
    CASE mask = "default_mask" -> t
      [] mask \in InPlaceMaskFns -> [t EXCEPT !.value = 0 - @]
      [] OTHER -> [is_grad_output |-> FALSE, value |-> ApplyMask(mask, t.value)]

\* the engine calls pre_backward(module, grad_input, grad_output):
\* masked_grad_output = grad_output[0].clone(), and the iterator of
\* "for mask in self.masks" at position 0 (last: a call was entered)
pre_backward_call(h, grad_output) ==
    /\ frame = NoFrame
    /\ h \in mregs
    /\ frame' = [op |-> "MaskHook.pre_backward", pc |-> "loop", hook |-> h,
                 original |-> grad_output, grad_output |-> grad_output,
                 masked_grad_output |-> Clone(grad_output), i |-> 0,
                 interleaved |-> FALSE]
    /\ last' = [op |-> "call", raised |-> "none"]
    /\ UNCHANGED <<mvars, fvars, counts, driver>>

\* one turn of "for mask in self.masks": the list iterator yields
\* self.masks[i] while i < len(self.masks), read at every turn; then
\* masked_grad_output = mask(masked_grad_output)
pre_backward_loop ==
    LET masks == lists[mhooks[frame.hook].masks]
        t == frame.masked_grad_output
    IN /\ frame.op = "MaskHook.pre_backward" /\ frame.pc = "loop"
       /\ frame' = IF frame.i < Len(masks)
                   THEN LET u == CallMask(masks[frame.i + 1], t)
                        IN [frame EXCEPT !.masked_grad_output = u,
                                         !.grad_output = IF u.is_grad_output THEN u.value ELSE @,
                                         !.i = @ + 1]
                   ELSE [frame EXCEPT !.pc = "return"]
       /\ UNCHANGED <<mvars, fvars, last, counts, driver>>

\* super().pre_backward(module, grad_input, (masked_grad_output,)) and
\* return (masked_grad_output,). engine_grad_output: what grad_output[0]
\* holds when the call returns
pre_backward_return ==
    /\ frame.op = "MaskHook.pre_backward" /\ frame.pc = "return"
    /\ frame' = NoFrame
    /\ last' = [op |-> "MaskHook.pre_backward", hook |-> frame.hook,
                grad_output |-> frame.original,
                engine_grad_output |-> frame.grad_output,
                bookkeeping |-> frame.masked_grad_output.value,
                ret |-> frame.masked_grad_output.value,
                interleaved |-> frame.interleaved,
                raised |-> "none"]
    /\ UNCHANGED <<mvars, fvars, counts, driver>>

\* remove called on hook h, possibly by another thread while a pre_backward
\* is between two statements. interleaved: it was called on another
\* duplicate of the original of the hook whose pre_backward is in progress
Interleaved_remove(h) ==
    /\ MaskHook_remove(h)
    /\ frame' = IF /\ frame.op = "MaskHook.pre_backward"
                   /\ h # frame.hook
                   /\ morigin[h] = morigin[frame.hook]
                THEN [frame EXCEPT !.interleaved = TRUE]
                ELSE frame
    /\ UNCHANGED <<counts, driver>>

NextMaskSteps ==
    \/ \E h \in MaskHookIds : frame = NoFrame /\ MaskHook_register(h) /\ UNCHANGED xvars
    \/ \E h \in MaskHookIds : frame = NoFrame /\ MaskHook_copy(h) /\ UNCHANGED xvars
    \/ \E h \in MaskHookIds : Interleaved_remove(h)
    \/ \E h \in MaskHookIds, g \in Grad : pre_backward_call(h, g)
    \/ pre_backward_loop
    \/ pre_backward_return

SpecMaskSteps == InitMaskSteps /\ [][NextMaskSteps]_vars

\* ------------------------------------------------ MaskHook and its caller
\* The mask hooks together with what their caller passed to the
\* constructors: driver.how[i] is how original i was constructed, and
\* driver.masks holds the list the caller passed (the caller keeps it).
CallerConstructions == Constructions \cup {<<"caller", "caller">>}

InitMasks ==
    /\ \E caller \in Pipelines, how \in CallerConstructions :
          /\ MaskHook_init(caller, how)
          /\ driver = [how |-> how,
                       masks |-> IF \E i \in 1..Len(how) : how[i] = "caller"
                                 THEN <<1>> ELSE <<>>]
    /\ dicts = <<>> /\ fhooks = <<>> /\ forigin = <<>> /\ held = {}
    /\ forward_hooks = {} /\ handles = <<>> /\ vals = EmptyBag
    /\ last = [op |-> "init", raised |-> "none"]
    /\ frame = NoFrame /\ counts = NoCounts

NextMasks ==
    \/ \E h \in MaskHookIds : MaskHook_register(h) /\ UNCHANGED xvars
    \/ \E h \in MaskHookIds, g \in Grad : MaskHook_pre_backward(h, g) /\ UNCHANGED xvars
    \/ \E h \in MaskHookIds : MaskHook_copy(h) /\ UNCHANGED xvars
    \/ \E h \in MaskHookIds : MaskHook_remove(h) /\ UNCHANGED xvars

SpecMasks == InitMasks /\ [][NextMasks]_vars

\* ------------------------------------------------------------- claims

\* the hooks copied, directly or not, from the same original as h
MaskFamily(h) == {d \in MaskHookIds : morigin[d] = morigin[h]}
\* the pipeline hook h observes
Pipeline(h) == lists[mhooks[h].masks]

\* mk(...m1(v)...): the last mask outermost, the first mask innermost
RECURSIVE Composed(_, _)
Composed(ms, v) ==
    IF ms = <<>> THEN v
    ELSE ApplyMask(ms[Len(ms)], Composed(SubSeq(ms, 1, Len(ms) - 1), v))

\* C1: pre_backward returns mk(...m1(v)...) for the pipeline m1..mk of the
\* hook and the reverse signal v: the masks are applied left to right, and
\* an empty pipeline returns v.
C1_LeftToRight ==
    last.op = "MaskHook.pre_backward" =>
        /\ last.ret = Composed(Pipeline(last.hook), last.grad_output)
        /\ Pipeline(last.hook) = <<>> => last.ret = last.grad_output

\* a call on the pipeline [negate, clamp] with signal -1: negate first gives
\* 1, clamp first would give 0
C1_Witness ==
    /\ last.op = "MaskHook.pre_backward"
    /\ Pipeline(last.hook) = <<"negate", "clamp">>
    /\ last.grad_output = 0 - 1
    /\ last.ret = 1

\* C2: all duplicates of one original observe the same pipeline contents in
\* every reachable state, and after remove on any one of them the pipeline
\* every member of the family observes is empty.
C2_SharedContainer ==
    /\ \A h1 \in MaskHookIds : \A h2 \in MaskFamily(h1) : Pipeline(h1) = Pipeline(h2)
    /\ last.op = "MaskHook.remove" =>
          \A d \in MaskFamily(last.hook) : Pipeline(d) = <<>>

\* remove was called on a duplicate whose family has the original and
\* another duplicate
C2_Witness ==
    /\ last.op = "MaskHook.remove"
    /\ morigin[last.hook] # last.hook
    /\ Cardinality(MaskFamily(last.hook)) >= 3
    /\ Pipeline(morigin[last.hook]) = <<>>


\* the dict the hook's dict_inputs names
MetaOf(h) == dicts[fhooks[h].dict_inputs]
\* hook h is decommissioned: the driver holds no reference to it and it is
\* registered at no module
Discarded(h) == h \notin held /\ ~\E e \in forward_hooks : e.hook = h

\* C3 (as stated): with a node evaluated twice and the metadata changed
\* between the two forward calls, each observer, when it fires, reports the
\* sample indices and targets of its own forward call.
C3_OwnForwardCall ==
    (/\ last.op = "FeatVisHook.backward"
     /\ \E v \in BagToSet(vals) :
           /\ v.backward_hook.hook_ref = last.hook
           /\ v.forward_meta # last.forward_meta)
    => /\ Len(last.calls) = 1
       /\ last.calls[1].s_indices = last.forward_meta.s_indices
       /\ last.calls[1].targets = last.forward_meta.targets

\* C3 (amended): every observer that fires makes one analyze_relevance call,
\* and it reports the sample indices and targets that the hook's metadata
\* dict holds when the observer fires.
C3_FireTimeMeta ==
    last.op = "FeatVisHook.backward" =>
        /\ Len(last.calls) = 1
        /\ last.calls[1].fn = "analyze_relevance"
        /\ last.calls[1].s_indices = MetaOf(last.hook).sample_indices
        /\ last.calls[1].targets = MetaOf(last.hook).targets

\* the node was evaluated twice with the metadata rebound in between; the
\* first value's observer has fired and reported the second call's metadata
C3_Witness ==
    /\ last.op = "FeatVisHook.backward"
    /\ Len(last.calls) = 1
    /\ last.calls[1].s_indices # last.forward_meta.s_indices
    /\ \E v \in BagToSet(vals) :
          /\ v.backward_hook.hook_ref = last.hook
          /\ v.forward_meta # last.forward_meta
          /\ v.forward_meta.s_indices = last.calls[1].s_indices

\* C4: an observer that fires after its hook has been discarded is a
\* recoverable no-op: nothing is raised and the analyzer is not called.
C4_DeadReferenceNoOp ==
    (last.op = "FeatVisHook.backward" /\ Discarded(last.hook)) =>
        /\ last.raised = "none"
        /\ last.calls = <<>>

\* C5: every copy names the dict of its original, so a forward or reverse
\* capture call from any member of the family reports the sample indices and
\* targets the original's dict holds at that moment (the rebound ones after
\* a rebinding).
C5_Aliasing ==
    /\ \A h \in FeatVisHookIds : fhooks[h].dict_inputs = fhooks[forigin[h]].dict_inputs
    /\ (/\ last.op \in {"FeatVisHook.post_forward", "FeatVisHook.backward"}
        /\ last.calls # <<>>)
       => /\ last.calls[1].s_indices = MetaOf(forigin[last.hook]).sample_indices
          /\ last.calls[1].targets = MetaOf(forigin[last.hook]).targets

\* a copy's observer fires after the metadata was rebound to run B and
\* reports run B
C5_Witness ==
    /\ last.op = "FeatVisHook.backward"
    /\ forigin[last.hook] # last.hook
    /\ last.forward_meta.s_indices = SampleIndices("A")
    /\ last.calls # <<>>
    /\ last.calls[1].s_indices = SampleIndices("B")
    /\ last.calls[1].targets = Targets("B")

\* C6: a post_forward call on an output without grad_fn completes with
\* exactly one analyze_activation call and registers no observer.
C6_NoMarker ==
    (last.op = "FeatVisHook.post_forward" /\ ~last.output.grad_fn) =>
        /\ last.raised = "none"
        /\ Len(last.calls) = 1
        /\ last.calls[1].fn = "analyze_activation"
        /\ ~last.registered

\* C7: remove on one duplicate leaves every registration in place and
\* empties the pipeline of every member of its family; an emptied pipeline
\* stays empty; and pre_backward on an empty pipeline returns its input.
C7_DetachNeutralizes ==
    [][/\ \A h \in MaskHookIds :
             MaskHook_remove(h) =>
                /\ mregs' = mregs
                /\ \A d \in MaskFamily(h) : lists'[mhooks'[d].masks] = <<>>
       /\ \A l \in 1..Len(lists) : lists[l] = <<>> => lists'[l] = <<>>
       /\ \A h \in MaskHookIds : \A g \in Grad :
             (Pipeline(h) = <<>> /\ MaskHook_pre_backward(h, g)) => last'.ret = g
      ]_vars

\* list 2 is always made by the constructor with the default mask in it:
\* it is empty, so a member of its family was removed; the whole family is
\* still registered, and a member's pre_backward has returned its input
C7_Witness ==
    /\ last.op = "MaskHook.pre_backward"
    /\ Len(lists) = 2
    /\ mhooks[last.hook].masks = 2
    /\ lists[2] = <<>>
    /\ Cardinality(MaskFamily(last.hook)) >= 2
    /\ MaskFamily(last.hook) \subseteq mregs
    /\ last.grad_output # 0
    /\ last.ret = last.grad_output

\* C8: removing the handle of one node leaves the forward hooks of the other
\* modules, their pending observers, the liveness of the other hooks and the
\* shared capture context (hook fields, metadata dict) as they were.
C8_PerNodeRemoval ==
    [][\A k \in FeatVisHookIds :
          HandleList_remove(k) =>
             /\ \A e \in forward_hooks : e.module # Module(k) => e \in forward_hooks'
             /\ vals' = vals
             /\ dicts' = dicts
             /\ fhooks' = fhooks
             /\ \A h \in FeatVisHookIds \ {k} : Alive(h)' = Alive(h)
      ]_vars

\* one node's handle has been removed; the other node's hook is still
\* registered and both of its captures have happened: a value of it was
\* hooked by post_forward and its observer has now fired
C8_Witness ==
    /\ last.op = "FeatVisHook.backward"
    /\ last.raised = "none"
    /\ Len(last.calls) = 1
    /\ \E e \in forward_hooks : e.hook = last.hook
    /\ \E k \in FeatVisHookIds \ {last.hook} :
          /\ handles[k] = << <<>> >>
          /\ ~\E e \in forward_hooks : e.hook = k

\* C9: a hook that the driver no longer references and that is registered
\* nowhere is not alive: pending observers do not keep it.
C9_NonOwning ==
    \A h \in FeatVisHookIds : Discarded(h) => ~Alive(h)

\* C10: a detach repeated right after itself changes nothing and raises
\* nothing, for MaskHook.remove and for the composite handle of register.
C10_DetachTwice ==
    [][/\ \A h \in MaskHookIds :
             (last.op = "MaskHook.remove" /\ last.hook = h /\ MaskHook_remove(h))
             => (mvars' = mvars /\ last'.raised = "none")
       /\ \A k \in FeatVisHookIds :
             (last.op = "handle.remove" /\ last.handle = k /\ HandleList_remove(k))
             => (fvars' = fvars /\ last'.raised = "none")
      ]_vars

\* the composite handle of a registered hook has been removed twice in a row
C10_Witness ==
    /\ last.op = "handle.remove"
    /\ last.again
    /\ handles[last.handle] = << <<>> >>
    /\ forward_hooks = {}

\* C11: post_forward completes for a tensor and for a tuple output: the
\* detached copy of the first element goes to analyze_activation, the
\* observer is registered on it when it has grad_fn, and the output is
\* returned (unwrapped when it has one element).
C11_BothShapes ==
    last.op = "FeatVisHook.post_forward" =>
        /\ last.raised = "none"
        /\ Len(last.calls) = 1
        /\ last.calls[1].fn = "analyze_activation"
        /\ last.calls[1].tensor.detached = FirstElement(last.output)
        /\ last.registered = last.output.grad_fn
        /\ last.ret = <<IF last.output.shape = "tuple2" THEN last.output
                        ELSE FirstElement(last.output)>>

\* C12: backward returns exactly the reverse signal it was handed, whatever
\* the signal and whatever the metadata of the capture context hold.
C12_ObservesOnly ==
    (last.op = "FeatVisHook.backward" /\ last.raised = "none") =>
        last.ret = <<last.grad>>

\* a backward call on a nonzero signal under rebound metadata has returned
C12_Witness ==
    /\ last.op = "FeatVisHook.backward"
    /\ last.raised = "none"
    /\ last.grad.data = 0 - 1
    /\ Len(last.calls) = 1
    /\ last.calls[1].s_indices = SampleIndices("B")
    /\ last.calls[1].tensor.detached = last.grad
    /\ last.ret = <<last.grad>>

\* C13: when the driver keeps at most one run in flight, every observer
\* reports the sample indices and targets of the run whose forward call
\* created it. (Without that discipline the state of C13_Race is reached.)
C13_OneRunInFlight ==
    (driver.serial /\ last.op = "FeatVisHook.backward") =>
        /\ Len(last.calls) = 1
        /\ last.calls[1].s_indices = SampleIndices(driver.fired[1])
        /\ last.calls[1].targets = Targets(driver.fired[1])

\* two runs in flight: an observer that run A's forward call created under
\* A's metadata has fired and reported the metadata rebound for run B
C13_Race ==
    /\ ~driver.serial
    /\ driver.inflight = {"A", "B"}
    /\ last.op = "FeatVisHook.backward"
    /\ driver.fired = <<"A">>
    /\ last.forward_meta.s_indices = SampleIndices("A")
    /\ Len(last.calls) = 1
    /\ last.calls[1].fn = "analyze_relevance"
    /\ last.calls[1].s_indices = SampleIndices("B")
    /\ last.calls[1].targets = Targets("B")

\* C14: the step of a post_forward call that registers its observer is taken
\* after the call has made its analyze_activation call, and an
\* analyze_relevance call is made only by an observer registered before.
C14_ForwardBeforeReverse ==
    [][/\ BagCardinality(vals') > BagCardinality(vals) =>
             /\ frame.op = "FeatVisHook.post_forward"
             /\ Len(frame.calls) = 1
             /\ frame.calls[1].fn = "analyze_activation"
             /\ frame.calls[1].s_indices = frame.meta.s_indices
       /\ \A outcome \in AnalyzerOutcomes :
             backward_analyze(outcome) => BagIn(frame.value, vals)
      ]_vars

\* the observer that the last post_forward call registered, after its
\* analyze_activation call, has fired and made its analyze_relevance call
C14_Witness ==
    /\ last.op = "FeatVisHook.post_forward"
    /\ last.registered
    /\ last.calls[1].fn = "analyze_activation"
    /\ frame.op = "FeatVisHook.backward"
    /\ frame.pc = "return"
    /\ frame.calls[1].fn = "analyze_relevance"
    /\ frame.value.forward_meta.s_indices = last.calls[1].s_indices

\* C15: a pre_backward call during which remove was called on another
\* duplicate of the same original returns its input signal.
C15_InFlightIdentity ==
    (last.op = "MaskHook.pre_backward" /\ last.interleaved) =>
        last.ret = last.grad_output

\* the observers of hook h registered on values that still exist
PendingObservers(h) ==
    LET own == {v \in BagToSet(vals) : v.backward_hook.hook_ref = h}
    IN BagCardinality([v \in own |-> CopiesIn(v, vals)])
\* the observer of h that is firing and has made its analyze_relevance call
\* (the engine discards it when it returns)
Firing(h) ==
    IF frame.op = "FeatVisHook.backward" /\ frame.pc = "return" /\ frame.self = h
    THEN 1 ELSE 0

\* C16: for every hook, the analyze_relevance calls made plus the observers
\* still pending never exceed the post_forward calls whose output had
\* grad_fn: a forward call creates at most one observer and an observer
\* makes at most one relevance call.
C16_OneObserverPerForward ==
    \A h \in FeatVisHookIds :
        counts[h].relevance + PendingObservers(h) - Firing(h) <= counts[h].forward

\* two forward calls with grad_fn, two observers, each has fired once
C16_Witness ==
    /\ counts[1].forward = 2
    /\ counts[1].relevance = 2
    /\ vals = EmptyBag
    /\ last.op = "FeatVisHook.backward"
    /\ frame = NoFrame

\* C17: while pre_backward runs and when it has returned, the engine's
\* grad_output[0] holds the value it had when the call was made, whatever
\* the masks do to their argument; and the value returned is the value
\* handed to the base class's pre_backward.
C17_CloneProtects ==
    /\ frame.op = "MaskHook.pre_backward" => frame.grad_output = frame.original
    /\ last.op = "MaskHook.pre_backward" =>
          /\ last.engine_grad_output = last.grad_output
          /\ last.ret = last.bookkeeping

\* a pipeline whose second mask negates in place the tensor the first one
\* handed through: the result is negated, the engine's tensor is not
C17_Witness ==
    /\ last.op = "MaskHook.pre_backward"
    /\ ~last.interleaved
    /\ Pipeline(last.hook) = <<"default_mask", "negate_">>
    /\ last.grad_output = 1
    /\ last.ret = 0 - 1
    /\ last.bookkeeping = 0 - 1
    /\ last.engine_grad_output = 1

\* C18: FeatVisHook.remove changes no hook field, not the metadata dict, no
\* forward registration and no pending observer, and raises nothing; and
\* every pending observer that fires, after a remove or not, makes its
\* analyze_relevance call.
C18_RemoveNoOp ==
    [][/\ \A h \in FeatVisHookIds :
             FeatVisHook_remove(h) => (fvars' = fvars /\ last'.raised = "none")
       /\ \A v \in BagToSet(vals) :
             wrapper_call(v, GradTensor) =>
                /\ Len(last'.calls) = 1
                /\ last'.calls[1].fn = "analyze_relevance"
                /\ last'.raised = "none"
      ]_vars

\* remove was called on a registered hook with an observer pending: the
\* registration and the observer are still there
C18_Witness ==
    /\ last.op = "FeatVisHook.remove"
    /\ \E e \in forward_hooks : e.hook = last.hook /\ e.module = Module(last.hook)
    /\ \E v \in BagToSet(vals) : v.backward_hook.hook_ref = last.hook
    /\ handles[last.hook] # <<>>
    /\ handles[last.hook] # << <<>> >>

\* C19: when analyze_activation raises, the post_forward call ends there
\* with that error, having registered no observer; when analyze_relevance
\* raises, the backward call ends there with that error and returns nothing.
C19_AnalyzerFailureSurfaces ==
    [][/\ post_forward_analyze("raises") =>
             /\ frame' = NoFrame
             /\ last'.op = "FeatVisHook.post_forward"
             /\ last'.raised = "AnalyzerFailure"
             /\ last'.ret = <<>>
             /\ ~frame.registered /\ ~last'.registered
             /\ vals' = vals
       /\ backward_analyze("raises") =>
             /\ frame' = NoFrame
             /\ last'.op = "FeatVisHook.backward"
             /\ last'.raised = "AnalyzerFailure"
             /\ last'.ret = <<>>
      ]_vars

\* the only forward call so far had grad_fn and its analyze_activation call
\* raised: the error is out, no observer exists, no relevance was recorded
C19_Witness ==
    /\ last.op = "FeatVisHook.post_forward"
    /\ last.raised = "AnalyzerFailure"
    /\ last.output.grad_fn
    /\ Len(last.calls) = 1
    /\ ~last.registered
    /\ counts[1].forward = 1
    /\ counts[1].relevance = 0
    /\ vals = EmptyBag
    /\ frame = NoFrame

\* hook h is a duplicate (or the original) of an original constructed
\* without a masks argument / from the caller's list
FromDefault(h) == driver.how[morigin[h]] = "default"
FromCaller(h) == driver.how[morigin[h]] = "caller"

\* C20: hooks of two originals constructed without a masks argument never
\* share a list, so remove on a member of one family leaves the pipeline of
\* the other as it was; a hook constructed from the caller's list holds that
\* very list, so remove on any member of its family empties the caller's list.
C20_SharingPerFamily ==
    [][/\ \A h1, h2 \in MaskHookIds :
             (FromDefault(h1) /\ FromDefault(h2) /\ morigin[h1] # morigin[h2])
             => mhooks[h1].masks # mhooks[h2].masks
       /\ \A h \in MaskHookIds :
             FromCaller(h) => mhooks[h].masks = driver.masks[1]
       /\ \A h \in MaskHookIds :
             MaskHook_remove(h) =>
                /\ \A d \in MaskHookIds :
                      (FromDefault(h) /\ FromDefault(d) /\ morigin[d] # morigin[h])
                      => lists'[mhooks'[d].masks] = lists[mhooks[d].masks]
                /\ FromCaller(h) => lists'[driver.masks[1]] = <<>>
      ]_vars

\* remove was called on a duplicate of the hook constructed from the
\* caller's list: the caller's list is empty, and the hook constructed
\* without a masks argument still has its one default mask
C20_Witness ==
    /\ driver.how = <<"caller", "default">>
    /\ last.op = "MaskHook.remove"
    /\ last.hook # morigin[last.hook]
    /\ FromCaller(last.hook)
    /\ lists[driver.masks[1]] = <<>>
    /\ Pipeline(2) = <<"default_mask">>

====
